---- MODULE Spec2Model ----
(***************************************************************************)
(* Session controller (useLiveApi), audio recorder, conversation log and   *)
(* analysis loop of the meeting assistant, as a state machine.             *)
(* One action is one event-loop task: a UI handler, a client event or the  *)
(* settling of a promise, together with the re-render and the effects that *)
(* React runs for the state it changed.                                    *)
(***************************************************************************)
EXTENDS Integers, Sequences, FiniteSets, TLC

\* ------------------------------------------------------------------ bounds
MaxMicStreams == 2     \* microphone streams pending or live at a time
MaxSysStreams == 1     \* system-audio streams pending or live at a time
MaxSysAcquire == 1     \* startSystemAudio invocations awaiting their stream
MaxSysOverlap == 2     \* the same, and streams, where invocations overlap
MaxTokenReport == 2    \* largest cumulative count the server reports
MaxTurns == 3          \* turns in the conversation log
StreamTurns == 2       \* turns in the log of the transcription scenarios
GateTurns == 1         \* turns in the log of the threshold scenarios
MaxTextLen == 2        \* characters of one streamed user turn (short texts)
MaxOverlap == 2        \* analysis calls in flight where calls overlap
MaxCalls == 1          \* analysis calls in flight
MaxConnections == 2    \* connections the client holds at a time
MaxLookups == 2        \* lookups invoked in one session, lookups in flight
MaxTools == 3          \* tools in the tool list

VARIABLES
  \* useLiveApi (src/unnamed/part_000)
  sessionState,             \* "idle" | "listening" | "paused"
  muted,
  isSystemAudioConnected,
  config,                   \* "empty" ({}) | "set"
  lastLiveTokens,           \* [input, output]
  micAudioRecorder,         \* AudioRecorder
  systemAudioRecorder,      \* AudioRecorder
  sysAcquiring,             \* startSystemAudio invocations awaiting their stream
  error,                    \* useUI.error: "null" | "message"
  micListeners,             \* 'data' listeners attached to micAudioRecorder
  sysListeners,             \* 'data' listeners attached to systemAudioRecorder
  \* GenAILiveClient
  conn,                     \* "closed" | "connecting" | "open"
  connections,              \* connections the client holds, opening or open
  \* useTools (src/lib/state.ts)
  tools,                    \* sequence of [name, isEnabled]
  \* useLogStore (src/lib/state.ts)
  turns,
  inputTokens,
  outputTokens,
  \* StreamingConsole
  transcriptRef,
  analysisTimer,            \* analysisIntervalRef holds a live interval
  isAnalyzing,
  analysis,                 \* "null" | "result"
  suggestions,              \* sequence of suggestion texts
  calls,                    \* callAnalysisAPI invocations in flight, oldest first:
                            \* [phase, superseded]
  retrievedContext,         \* "null" | "context"
  lookups,                  \* phone numbers of the lookups in flight
  \* useSessionStore, useLogStore
  customerPhoneNumber,      \* "null" or the sanitized number
  lastSessionAnalysis,      \* "null" | "result"
  lastSessionTokens,        \* the total the last idle finalization stored
  \* history
  lastOp,                   \* the step just taken, with its arguments
  reported,                 \* the cumulative pair the server reported last
  nonDecreasing,            \* every report of this session was >= the one before
  liveAdded,                \* total onTokens passed to addTokens since open
  afterDisconnect,          \* disconnect() was the last call or event; only
                            \* recorder promises have settled since
  lookupCount,              \* lookups invoked since the session began
  \* time
  clocked,                  \* elapsed time is tracked (else a live interval
                            \* may fire at any moment)
  timerAge,                 \* ms since the live interval was set or fired
  sinceTick                 \* ms in listening since it was entered or a tick fired

lstn == <<micListeners, sysListeners>>
ctrl == <<sessionState, muted, isSystemAudioConnected, config, lastLiveTokens,
          micAudioRecorder, systemAudioRecorder, sysAcquiring, error, conn, connections, lstn>>
logv == <<turns, inputTokens, outputTokens>>
storev == <<retrievedContext, lookups, customerPhoneNumber, lastSessionAnalysis,
            lastSessionTokens, lookupCount>>
timev == <<clocked, timerAge, sinceTick>>
sessv == <<storev, timev>>
cons == <<transcriptRef, analysisTimer, isAnalyzing, analysis, suggestions, calls, sessv>>
hist == <<lastOp, reported, nonDecreasing, liveAdded, afterDisconnect>>
vars == <<ctrl, logv, cons, hist, tools>>

\* ---------------------------------------------------------- AudioRecorder
\* recording, starting (0 = null, else the id of the start promise), stream
\* (0 = undefined), the starts still pending, the streams whose tracks have
\* not been stopped, and the number of streams the device gives at a time;
\* lastCall remembers which of start()/startWithStream() and stop() was
\* called last ("none" before the first call).
NewRecorder(max) ==
  [recording |-> FALSE, starting |-> 0, stream |-> 0, pending |-> {}, live |-> {},
   max |-> max, lastCall |-> "none"]

PendingIds(r) == {p.id : p \in r.pending}

FreeIds(r) == (1..r.max) \ (PendingIds(r) \cup r.live)

FreshId(r) == CHOOSE k \in FreeIds(r) : \A j \in FreeIds(r) : k <= j

\* A handleStop that returns at once.
HandleStopSkipped(r) == r

\* handleStop: a no-op unless recording; stops the tracks of this.stream.
HandleStop(r) ==
  IF ~r.recording THEN r
  ELSE [r EXCEPT !.live = r.live \ {r.stream}, !.stream = 0, !.recording = FALSE]

\* stop(): while a start is pending, handleStop is chained on this.starting.
RecStop(r) ==
  IF r.starting # 0
  THEN [r EXCEPT !.lastCall = "stop", !.pending =
          {IF p.id = r.starting THEN [p EXCEPT !.stop = TRUE] ELSE p : p \in r.pending}]
  ELSE [HandleStop(r) EXCEPT !.lastCall = "stop"]

\* start(): returns at once when recording, else a new promise that awaits
\* getUserMedia and then _initialize.
RecStart(r) ==
  IF r.recording THEN [r EXCEPT !.lastCall = "start"]
  ELSE LET k == FreshId(r) IN
       [r EXCEPT !.lastCall = "start", !.starting = k,
                 !.pending = r.pending \cup {[id |-> k, phase |-> "acquire", stop |-> FALSE]}]

\* startWithStream(s): returns at once when recording, else a new promise
\* that runs _initialize(s), which stores the stream before its first await.
RecStartWithStream(r, s) ==
  IF r.recording THEN [r EXCEPT !.lastCall = "start"]
  ELSE [r EXCEPT !.lastCall = "start", !.starting = s, !.stream = s,
                 !.pending = r.pending \cup {[id |-> s, phase |-> "init", stop |-> FALSE]}]

\* getUserMedia resolved for start k: _initialize stores the stream.
RecAcquired(r, k) ==
  [r EXCEPT !.stream = k, !.live = r.live \cup {k},
            !.pending = {IF p.id = k THEN [p EXCEPT !.phase = "init"] ELSE p : p \in r.pending}]

\* The value this.starting takes in the finally block of a start promise.
StartingAfterSettle(r, k) == 0

\* _initialize finished for start p: recording = true, resolve(), the finally
\* block clears this.starting, then the chained handleStop (if any) runs.
RecSettle(r, p) ==
  LET r1 == [r EXCEPT !.recording = TRUE, !.starting = StartingAfterSettle(r, p.id),
                      !.pending = r.pending \ {p}]
  IN IF p.stop THEN HandleStop(r1) ELSE r1

\* Start p rejected (getUserMedia or _initialize threw): reject(), the finally
\* block clears this.starting; a chained handleStop does not run.
RecFail(r, p) ==
  [r EXCEPT !.starting = 0, !.pending = r.pending \ {p}]

\* ------------------------------------------------------------ useLiveApi
\* Mic effect, deps [sessionState, client, muted, micAudioRecorder]: runs when
\* a dependency changed; starts the recorder when listening and not muted,
\* stops it otherwise.
MicWantedMuted(s, m) == s = "listening"

MicWanted(s, m) == s = "listening" /\ ~m

MicEffect(r, s2, m2) ==
  IF s2 = sessionState /\ m2 = muted THEN r
  ELSE IF MicWanted(s2, m2) THEN RecStart(r) ELSE RecStop(r)

\* System-audio effect, deps [sessionState, client, isSystemAudioConnected,
\* systemAudioRecorder]: attaches the listener when listening and connected,
\* stops the recorder otherwise.
SysEffect(r, s2, y2) ==
  IF s2 = sessionState /\ y2 = isSystemAudioConnected THEN r
  ELSE IF s2 = "listening" /\ y2 THEN r ELSE RecStop(r)

\* The mic effect may call start() only while the recorder has a stream to give.
MicEffectEnabled(r, s2, m2) ==
  ((s2 # sessionState \/ m2 # muted) /\ MicWanted(s2, m2) /\ ~r.recording)
     => FreeIds(r) # {}

\* A recorder effect whose cleanup removes nothing.
EffectCleanupSkipped(n, attached) == n

\* The cleanup of a recorder effect: off('data', onData) removes the listener
\* the run it belongs to attached.
EffectCleanup(n, attached) == IF attached THEN n - 1 ELSE n

\* The listeners on the microphone recorder after a render: the cleanup of the
\* last run, then on('data', onData) when listening and not muted.
MicListenersAfter(n, s2, m2) ==
  IF s2 = sessionState /\ m2 = muted THEN n
  ELSE LET c == EffectCleanup(n, MicWanted(sessionState, muted))
       IN IF MicWanted(s2, m2) THEN c + 1 ELSE c

SysWanted(s, y) == s = "listening" /\ y

SysListenersAfter(n, s2, y2) ==
  IF s2 = sessionState /\ y2 = isSystemAudioConnected THEN n
  ELSE LET c == EffectCleanup(n, SysWanted(sessionState, isSystemAudioConnected))
       IN IF SysWanted(s2, y2) THEN c + 1 ELSE c

\* What the console renders from and what its effects write.
ConsoleState ==
  [sessionState |-> sessionState, isSystemAudioConnected |-> isSystemAudioConnected,
   inputTokens |-> inputTokens, outputTokens |-> outputTokens,
   analysis |-> analysis, suggestions |-> suggestions, transcriptRef |-> transcriptRef,
   retrievedContext |-> retrievedContext, customerPhoneNumber |-> customerPhoneNumber,
   lastSessionAnalysis |-> lastSessionAnalysis, lastSessionTokens |-> lastSessionTokens,
   analysisTimer |-> analysisTimer, lookups |-> lookups, lookupCount |-> lookupCount,
   timerAge |-> timerAge]

\* Dependencies of the fetchContext effect.
FetchDeps(c) == <<c.sessionState, c.customerPhoneNumber, c.retrievedContext>>

\* Dependencies of the session effect; callAnalysisAPI changes with
\* isSystemAudioConnected and retrievedContext.
SessionDeps(c) ==
  <<c.sessionState, c.isSystemAudioConnected, c.retrievedContext, c.inputTokens,
    c.outputTokens, c.analysis>>

\* fetchContext: the lookup is invoked while listening with a phone number and
\* no retrieved context.
LookupWanted(c) ==
  c.sessionState = "listening" /\ c.customerPhoneNumber # "null" /\ c.retrievedContext = "null"

FetchContextEffect(c) ==
  IF LookupWanted(c)
  THEN [c EXCEPT !.lookups = Append(@, c.customerPhoneNumber), !.lookupCount = @ + 1]
  ELSE c

\* The idle finalization leaving the transcript buffer as it is.
IdleTranscriptKept(c) == c.transcriptRef

\* transcriptRef.current after the idle finalization.
IdleTranscript(c) == ""

\* A snapshot of the input tokens alone.
SessionTotalInput(c) == c.inputTokens

\* The total the idle finalization hands to setLastSessionTokens.
SessionTotal(c) == c.inputTokens + c.outputTokens

\* The analysis the idle finalization hands to setLastSessionAnalysis.
FinalAnalysis(c) == c.analysis

\* A session effect that leaves a pending interval in place.
TimerKept(c) == c.analysisTimer

\* The interval after clearInterval(analysisIntervalRef.current) at the top
\* of the session effect.
TimerCleared(c) == FALSE

\* The session effect: the interval is cleared and armed again only when
\* listening; idle snapshots the tokens and the analysis and clears the
\* transcript buffer, the analysis, the suggestions, the retrieved context and
\* the phone number (the lookups of the session are counted up to here).
SessionEffect(c) ==
  CASE c.sessionState = "listening" ->
         [c EXCEPT !.analysisTimer = TRUE, !.timerAge = 0, !.lastSessionAnalysis = "null"]
    [] c.sessionState = "paused" ->
         [c EXCEPT !.analysisTimer = TimerCleared(c), !.timerAge = 0]
    [] c.sessionState = "idle" ->
         [c EXCEPT !.analysisTimer = TimerCleared(c),
                   !.timerAge = 0,
                   !.lastSessionTokens = SessionTotal(c),
                   !.lastSessionAnalysis = FinalAnalysis(c),
                   !.transcriptRef = IdleTranscript(c),
                   !.analysis = "null",
                   !.suggestions = <<>>,
                   !.retrievedContext = "null",
                   !.customerPhoneNumber = "null",
                   !.lookupCount = 0]

\* One commit: the effects whose dependencies differ from the last render's.
Commit(p, c) ==
  LET c1 == IF FetchDeps(c) # FetchDeps(p) THEN FetchContextEffect(c) ELSE c
  IN IF SessionDeps(c) # SessionDeps(p) THEN SessionEffect(c1) ELSE c1

\* Renders and effects until an effect run changes nothing.
RECURSIVE Settle(_, _)
Settle(p, c) ==
  LET c2 == Commit(p, c) IN IF c2 = c THEN c ELSE Settle(c, c2)

\* The console after a handler left the state p with these values.
ConsoleRenderFrom(p, s2, y2, in2, out2, an2, sg2, rc2, ph2) ==
  LET c == [p EXCEPT !.sessionState = s2, !.isSystemAudioConnected = y2,
                     !.inputTokens = in2, !.outputTokens = out2,
                     !.analysis = an2, !.suggestions = sg2,
                     !.retrievedContext = rc2, !.customerPhoneNumber = ph2]
  IN \E d \in {Settle(p, c)} :
     /\ d.lookupCount <= MaxLookups
     /\ Len(d.lookups) <= MaxLookups
     /\ transcriptRef' = d.transcriptRef
     /\ analysisTimer' = d.analysisTimer
     /\ analysis' = d.analysis
     /\ suggestions' = d.suggestions
     /\ retrievedContext' = d.retrievedContext
     /\ lookups' = d.lookups
     /\ customerPhoneNumber' = d.customerPhoneNumber
     /\ lastSessionAnalysis' = d.lastSessionAnalysis
     /\ lastSessionTokens' = d.lastSessionTokens
     /\ lookupCount' = d.lookupCount
     /\ timerAge' = d.timerAge
     /\ sinceTick' = IF s2 = "listening" /\ p.sessionState # "listening" THEN 0 ELSE sinceTick
     /\ UNCHANGED clocked

ConsoleRender(s2, y2, in2, out2, an2, sg2, rc2, ph2) ==
  ConsoleRenderFrom(ConsoleState, s2, y2, in2, out2, an2, sg2, rc2, ph2)

\* Commit of the controller state a handler set, and the effects it triggers.
RenderWith(s2, m2, y2, mic1, sys1, in2, out2) ==
  /\ MicEffectEnabled(mic1, s2, m2)
  /\ sessionState' = s2
  /\ muted' = m2
  /\ isSystemAudioConnected' = y2
  /\ micAudioRecorder' = MicEffect(mic1, s2, m2)
  /\ systemAudioRecorder' = SysEffect(sys1, s2, y2)
  /\ micListeners' = MicListenersAfter(micListeners, s2, m2)
  /\ sysListeners' = SysListenersAfter(sysListeners, s2, y2)
  /\ ConsoleRender(s2, y2, in2, out2, analysis, suggestions, retrievedContext,
                   customerPhoneNumber)

Render(s2, m2, y2, mic1, sys1) ==
  RenderWith(s2, m2, y2, mic1, sys1, inputTokens, outputTokens)

\* GenAILiveClient: disconnect() closes the connection, connect() starts
\* opening one; the open event follows when the connection is established.
ClientDisconnect(c) == "closed"

ClientConnect(c) == "connecting"

\* The connections the client holds after disconnect() and after connect().
TornDown(n) == 0

OpenedOne(n) == n + 1

\* connect() leaving the connection it finds in place.
ConnectNoTeardown(n) == n

\* connect() calls client.disconnect() before client.connect(config).
ConnectTeardown(n) == TornDown(n)

\* !config: an object, also the empty one, is truthy.
ConfigMissing(c) == c = "undefined"

\* The state onOpen / onClose set.
OnOpenState == "listening"

OnCloseState == "idle"

\* pause() without its check of the current state.
PauseStateUnchecked(s) == "paused"

\* The state pause() / resume() leave.
PauseState(s) == IF s = "listening" THEN "paused" ELSE s

ResumeState(s) == IF s = "paused" THEN "listening" ELSE s

\* The state disconnect() sets.
DisconnectState(s) == "idle"

unTok == <<lastLiveTokens, inputTokens, outputTokens, reported, nonDecreasing, liveAdded>>

\* setConfig(config) from the console's voice effect.
SetConfig ==
  /\ config = "empty"
  /\ config' = "set"
  /\ lastOp' = <<"setConfig">>
  /\ UNCHANGED tools
  /\ afterDisconnect' = FALSE
  /\ UNCHANGED <<sessionState, muted, isSystemAudioConnected, micAudioRecorder,
                 systemAudioRecorder, sysAcquiring, error, conn, connections, lstn,
                 logv, cons, unTok>>

\* connect(): throws without a config, else client.disconnect() and
\* client.connect(config).
ConnectCall ==
  /\ conn' = IF ConfigMissing(config) THEN conn ELSE ClientConnect(ClientDisconnect(conn))
  /\ connections' = IF ConfigMissing(config) THEN connections
                    ELSE OpenedOne(ConnectTeardown(connections))
  /\ connections' <= MaxConnections

Connect ==
  /\ ConnectCall
  /\ lastOp' = <<"connect", ConfigMissing(config), conn = "connecting">>
  /\ UNCHANGED tools
  /\ afterDisconnect' = FALSE
  /\ UNCHANGED <<sessionState, muted, isSystemAudioConnected, config, micAudioRecorder,
                 systemAudioRecorder, sysAcquiring, error, lstn, logv, cons, unTok>>

\* resetTokens leaving a counter as it is.
ResetTokensKept(count) == count

\* useLogStore.resetTokens, for one counter.
ResetTokens(count) == 0

\* client 'open' -> onOpen: resetTokens, last-seen tokens (0,0), listening.
ClientOpen ==
  /\ conn = "connecting"
  /\ conn' = "open"
  /\ inputTokens' = ResetTokens(inputTokens)
  /\ outputTokens' = ResetTokens(outputTokens)
  /\ lastLiveTokens' = [input |-> 0, output |-> 0]
  /\ reported' = [input |-> 0, output |-> 0]
  /\ nonDecreasing' = TRUE
  /\ liveAdded' = 0
  /\ RenderWith(OnOpenState, muted, isSystemAudioConnected, micAudioRecorder,
                systemAudioRecorder, ResetTokens(inputTokens), ResetTokens(outputTokens))
  /\ lastOp' = <<"open", sessionState, inputTokens + outputTokens > 0>>
  /\ UNCHANGED tools
  /\ afterDisconnect' = FALSE
  /\ UNCHANGED <<config, sysAcquiring, error, connections, turns, isAnalyzing, calls>>

\* The connection is closed by the server: client 'close' -> onClose.
RemoteClose ==
  /\ conn = "open"
  /\ conn' = "closed"
  /\ connections' = connections - 1
  /\ Render(OnCloseState, muted, isSystemAudioConnected, micAudioRecorder, systemAudioRecorder)
  /\ lastOp' = <<"close", sessionState>>
  /\ UNCHANGED tools
  /\ afterDisconnect' = FALSE
  /\ UNCHANGED <<config, sysAcquiring, error, logv, isAnalyzing, calls, unTok>>

\* stopSystemAudio() flipping the flag instead of clearing it.
StoppedFlagToggled(y) == ~y

\* The flag stopSystemAudio() sets.
StoppedFlag(y) == FALSE

\* disconnect(): micAudioRecorder.stop(), stopSystemAudio(),
\* client.disconnect(), setSessionState('idle').
Disconnect ==
  /\ conn' = ClientDisconnect(conn)
  /\ connections' = TornDown(connections)
  /\ Render(DisconnectState(sessionState), muted, StoppedFlag(isSystemAudioConnected),
            RecStop(micAudioRecorder), RecStop(systemAudioRecorder))
  /\ lastOp' = <<"disconnect", lastOp[1] = "disconnect", analysis>>
  /\ UNCHANGED tools
  /\ afterDisconnect' = TRUE
  /\ UNCHANGED <<config, sysAcquiring, error, logv, isAnalyzing, calls, unTok>>

Pause ==
  /\ Render(PauseState(sessionState), muted, isSystemAudioConnected,
            micAudioRecorder, systemAudioRecorder)
  /\ lastOp' = <<"pause", sessionState>>
  /\ UNCHANGED tools
  /\ afterDisconnect' = FALSE
  /\ UNCHANGED <<config, sysAcquiring, error, conn, connections, logv, isAnalyzing, calls, unTok>>

Resume ==
  /\ Render(ResumeState(sessionState), muted, isSystemAudioConnected,
            micAudioRecorder, systemAudioRecorder)
  /\ lastOp' = <<"resume", sessionState>>
  /\ UNCHANGED tools
  /\ afterDisconnect' = FALSE
  /\ UNCHANGED <<config, sysAcquiring, error, conn, connections, logv, isAnalyzing, calls, unTok>>

ToggleMute ==
  /\ Render(sessionState, ~muted, isSystemAudioConnected,
            micAudioRecorder, systemAudioRecorder)
  /\ lastOp' = <<"toggleMute">>
  /\ UNCHANGED tools
  /\ afterDisconnect' = FALSE
  /\ UNCHANGED <<config, sysAcquiring, error, conn, connections, logv, isAnalyzing, calls, unTok>>

\* Microphone start k: getUserMedia resolved.
MicAcquired ==
  /\ \E p \in micAudioRecorder.pending :
       /\ p.phase = "acquire"
       /\ micAudioRecorder' = RecAcquired(micAudioRecorder, p.id)
  /\ lastOp' = <<"micAcquired">>
  /\ UNCHANGED tools
  /\ UNCHANGED afterDisconnect
  /\ UNCHANGED <<sessionState, muted, isSystemAudioConnected, config, systemAudioRecorder,
                 sysAcquiring, error, conn, connections, lstn, logv, cons, unTok>>

\* Microphone start k: _initialize finished and the promise settles.
MicSettle ==
  /\ \E p \in micAudioRecorder.pending :
       /\ p.phase = "init"
       /\ micAudioRecorder' = RecSettle(micAudioRecorder, p)
  /\ lastOp' = <<"micSettle">>
  /\ UNCHANGED tools
  /\ UNCHANGED afterDisconnect
  /\ UNCHANGED <<sessionState, muted, isSystemAudioConnected, config, systemAudioRecorder,
                 sysAcquiring, error, conn, connections, lstn, logv, cons, unTok>>

\* Microphone start k: getUserMedia rejected (permission denied, no device).
MicFail ==
  /\ \E p \in micAudioRecorder.pending :
       /\ p.phase = "acquire"
       /\ micAudioRecorder' = RecFail(micAudioRecorder, p)
  /\ lastOp' = <<"micFail">>
  /\ UNCHANGED tools
  /\ UNCHANGED afterDisconnect
  /\ UNCHANGED <<sessionState, muted, isSystemAudioConnected, config, systemAudioRecorder,
                 sysAcquiring, error, conn, connections, lstn, logv, cons, unTok>>

\* emitter.emit('data', frame): every attached listener is called once, and
\* each call is one client.sendRealtimeInput.
FramesSent(listeners) == listeners

\* A recording worklet of the microphone recorder posts a frame. A worklet is
\* connected from _initialize on; stop() disconnects the source only when the
\* recorder is recording, so any stream still live may deliver frames.
MicFrame ==
  /\ micAudioRecorder.live # {}
  /\ lastOp' = <<"micFrame", FramesSent(micListeners), sessionState, muted>>
  /\ UNCHANGED tools
  /\ UNCHANGED afterDisconnect
  /\ UNCHANGED <<ctrl, logv, cons, unTok>>

\* startSystemAudio(): returns when already connected, else awaits the stream.
StartSystemAudioUpTo(maxAcquire) ==
  /\ isSystemAudioConnected \/ sysAcquiring < maxAcquire
  /\ sysAcquiring' = IF isSystemAudioConnected THEN sysAcquiring ELSE sysAcquiring + 1
  /\ lastOp' = <<"startSystemAudio">>
  /\ UNCHANGED tools
  /\ afterDisconnect' = FALSE
  /\ UNCHANGED <<sessionState, muted, isSystemAudioConnected, config, micAudioRecorder,
                 systemAudioRecorder, error, conn, connections, lstn, logv, cons, unTok>>

StartSystemAudio == StartSystemAudioUpTo(MaxSysAcquire)

\* getDisplayMedia / getUserMedia resolved inside startSystemAudio: onended is
\* set on the track and startWithStream(stream) is awaited; when the recorder
\* is already recording that returns at once and the flag is set.
SysStreamAcquired ==
  /\ sysAcquiring > 0
  /\ FreeIds(systemAudioRecorder) # {}
  /\ sysAcquiring' = sysAcquiring - 1
  /\ LET s == FreshId(systemAudioRecorder)
         r1 == [systemAudioRecorder EXCEPT !.live = systemAudioRecorder.live \cup {s}]
     IN Render(sessionState, muted,
               IF systemAudioRecorder.recording THEN TRUE ELSE isSystemAudioConnected,
               micAudioRecorder, RecStartWithStream(r1, s))
  /\ lastOp' = <<"sysStreamAcquired">>
  /\ UNCHANGED tools
  /\ UNCHANGED afterDisconnect
  /\ UNCHANGED <<config, error, conn, connections, logv, isAnalyzing, calls, unTok>>

\* A catch block that leaves the flag as it finds it.
FailedFlagKept(y) == y

\* The flag the catch block of startSystemAudio sets.
FailedFlag(y) == FALSE

\* The stream request of startSystemAudio rejected: the catch block clears the
\* flag and reports the error.
SysAcquireFail ==
  /\ sysAcquiring > 0
  /\ sysAcquiring' = sysAcquiring - 1
  /\ error' = "message"
  /\ Render(sessionState, muted, FailedFlag(isSystemAudioConnected), micAudioRecorder,
            systemAudioRecorder)
  /\ lastOp' = <<"sysAcquireFail", isSystemAudioConnected>>
  /\ UNCHANGED tools
  /\ UNCHANGED afterDisconnect
  /\ UNCHANGED <<config, conn, connections, logv, isAnalyzing, calls, unTok>>

\* startWithStream settled: startSystemAudio resumes and sets the flag.
SysSettle ==
  /\ \E p \in systemAudioRecorder.pending :
       Render(sessionState, muted, TRUE, micAudioRecorder, RecSettle(systemAudioRecorder, p))
  /\ lastOp' = <<"sysSettle">>
  /\ UNCHANGED tools
  /\ UNCHANGED afterDisconnect
  /\ UNCHANGED <<config, sysAcquiring, error, conn, connections, logv, isAnalyzing, calls, unTok>>

\* startWithStream rejected: the catch block of startSystemAudio.
SysFail ==
  /\ \E p \in systemAudioRecorder.pending :
       Render(sessionState, muted, FailedFlag(isSystemAudioConnected), micAudioRecorder,
              RecFail(systemAudioRecorder, p))
  /\ error' = "message"
  /\ lastOp' = <<"sysFail", isSystemAudioConnected>>
  /\ UNCHANGED tools
  /\ UNCHANGED afterDisconnect
  /\ UNCHANGED <<config, sysAcquiring, conn, connections, logv, isAnalyzing, calls, unTok>>

\* stopSystemAudio(): systemAudioRecorder.stop(), flag false.
StopSystemAudio ==
  /\ Render(sessionState, muted, StoppedFlag(isSystemAudioConnected), micAudioRecorder,
            RecStop(systemAudioRecorder))
  /\ lastOp' = <<"stopSystemAudio">>
  /\ UNCHANGED tools
  /\ afterDisconnect' = FALSE
  /\ UNCHANGED <<config, sysAcquiring, error, conn, connections, logv, isAnalyzing, calls, unTok>>

\* The shared track ends (share revoked in the browser): onended calls
\* stopSystemAudio().
TrackEnded ==
  /\ \E s \in systemAudioRecorder.live :
       Render(sessionState, muted, StoppedFlag(isSystemAudioConnected), micAudioRecorder,
              RecStop([systemAudioRecorder EXCEPT !.live = systemAudioRecorder.live \ {s}]))
  /\ lastOp' = <<"trackEnded", isSystemAudioConnected>>
  /\ UNCHANGED tools
  /\ afterDisconnect' = FALSE
  /\ UNCHANGED <<config, sysAcquiring, error, conn, connections, logv, isAnalyzing, calls, unTok>>

\* ---------------------------------------------------------------- tokens
\* onTokens applying the deltas only when both are positive.
TokensAppliedBoth(inputDelta, outputDelta) == inputDelta > 0 /\ outputDelta > 0

\* onTokens applies the two deltas when either is positive.
TokensApplied(inputDelta, outputDelta) == inputDelta > 0 \/ outputDelta > 0

\* addTokens leaving a counter as it is.
AddTokensDropped(count, delta) == count

\* useLogStore.addTokens
AddTokens(count, delta) == count + delta

\* client 'tokens' -> onTokens(inputTokens, outputTokens), the cumulative pair.
OnTokens(i, o) ==
  LET inputDelta == i - lastLiveTokens.input
      outputDelta == o - lastLiveTokens.output
      applied == TokensApplied(inputDelta, outputDelta)
  IN /\ conn = "open"
     /\ inputTokens' = IF applied THEN AddTokens(inputTokens, inputDelta) ELSE inputTokens
     /\ outputTokens' = IF applied THEN AddTokens(outputTokens, outputDelta) ELSE outputTokens
     /\ lastLiveTokens' = IF applied THEN [input |-> i, output |-> o] ELSE lastLiveTokens
     /\ liveAdded' = IF applied THEN liveAdded + inputDelta + outputDelta ELSE liveAdded
     /\ nonDecreasing' = (nonDecreasing /\ i >= reported.input /\ o >= reported.output)
     /\ reported' = [input |-> i, output |-> o]
     /\ lastOp' = <<"tokens", i, o>>
     /\ UNCHANGED tools
     /\ afterDisconnect' = FALSE
     /\ ConsoleRender(sessionState, isSystemAudioConnected,
                      IF applied THEN AddTokens(inputTokens, inputDelta) ELSE inputTokens,
                      IF applied THEN AddTokens(outputTokens, outputDelta) ELSE outputTokens,
                      analysis, suggestions, retrievedContext, customerPhoneNumber)
     /\ UNCHANGED <<sessionState, muted, isSystemAudioConnected, config, micAudioRecorder,
                    systemAudioRecorder, sysAcquiring, error, conn, connections, lstn,
                    turns, isAnalyzing, calls>>

\* ------------------------------------------------------ conversation log
\* A sentence of 49 characters, for transcripts around the analysis threshold.
Pad49 == "The quick brown fox jumps over the lazy dog 12345"

\* useLogStore.addTurn (the timestamp is left out)
AddTurn(ts, turn) == Append(ts, turn)

\* updateLastTurn merging the update into the first turn.
UpdateFirstTurn(ts, text, isFinal) ==
  IF Len(ts) = 0 THEN ts
  ELSE [ts EXCEPT ![1] = [@ EXCEPT !.text = text, !.isFinal = isFinal]]

\* useLogStore.updateLastTurn: merges the update into the last turn.
UpdateLastTurn(ts, text, isFinal) ==
  IF Len(ts) = 0 THEN ts
  ELSE [ts EXCEPT ![Len(ts)] = [@ EXCEPT !.text = text, !.isFinal = isFinal]]

RECURSIVE JoinTexts(_)
\* turns.map(t => t.text).join('\n')
JoinTexts(ts) ==
  IF Len(ts) = 0 THEN ""
  ELSE IF Len(ts) = 1 THEN ts[1].text
  ELSE JoinTexts(SubSeq(ts, 1, Len(ts) - 1)) \o "\n" \o ts[Len(ts)].text

\* handleInputTranscription extending the last turn whether sealed or not.
TranscriptionTurnsNoSeal(ts, text, isFinal) ==
  IF Len(ts) > 0
  THEN UpdateLastTurn(ts, ts[Len(ts)].text \o text, isFinal)
  ELSE AddTurn(ts, [role |-> "user", text |-> text, isFinal |-> isFinal])

\* handleInputTranscription: the turns after the event.
TranscriptionTurns(ts, text, isFinal) ==
  IF Len(ts) > 0 /\ ~ts[Len(ts)].isFinal
  THEN UpdateLastTurn(ts, ts[Len(ts)].text \o text, isFinal)
  ELSE AddTurn(ts, [role |-> "user", text |-> text, isFinal |-> isFinal])

\* The streamed characters of a text: what it holds besides the long sentence.
ShortPart(text) == IF Len(text) >= Len(Pad49) THEN Len(text) - Len(Pad49) ELSE Len(text)

\* client 'inputTranscription' -> handleInputTranscription(text, isFinal).
\* maxTurns bounds the log the event extends.
HandleInputTranscription(text, isFinal, maxTurns) ==
  /\ conn = "open"
  /\ turns' = TranscriptionTurns(turns, text, isFinal)
  /\ Len(turns') <= maxTurns
  /\ ShortPart(turns'[Len(turns')].text) <= MaxTextLen
  /\ transcriptRef' = JoinTexts(turns')
  /\ lastOp' = <<"inputTranscription", text, isFinal, Len(turns') > Len(turns)>>
  /\ UNCHANGED tools
  /\ afterDisconnect' = FALSE
  /\ UNCHANGED <<ctrl, inputTokens, outputTokens, analysisTimer, isAnalyzing, analysis,
                 suggestions, calls, sessv, reported, nonDecreasing, liveAdded>>

\* The markdown code fence (three grave accents, written with apostrophes).
Fence == "'''"

\* JSON.stringify(fc.args, null, 2) for the argument objects of the model.
StringifyArgs(args) ==
  CASE args = "none" -> "{}"
    [] args = "city" -> "{\n  \"city\": \"Rome\"\n}"

\* The trigger message logged for one function call.
TriggerMessage(fc) ==
  "Triggering function call: **" \o fc.name \o "**\n" \o Fence \o "json\n"
     \o StringifyArgs(fc.args) \o "\n" \o Fence

\* A response that carries the name in place of the call id.
FunctionResponseNoId(fc) == [id |-> fc.name, name |-> fc.name, response |-> [result |-> "ok"]]

\* The response prepared for one function call.
FunctionResponse(fc) == [id |-> fc.id, name |-> fc.name, response |-> [result |-> "ok"]]

RECURSIVE FunctionResponses(_)
FunctionResponses(fcs) ==
  IF Len(fcs) = 0 THEN <<>>
  ELSE Append(FunctionResponses(SubSeq(fcs, 1, Len(fcs) - 1)), FunctionResponse(fcs[Len(fcs)]))

\* JSON.stringify(response, null, 2) of one entry, at array depth.
StringifyResponse(fr) ==
  "  {\n    \"id\": \"" \o fr.id \o "\",\n    \"name\": \"" \o fr.name
     \o "\",\n    \"response\": {\n      \"result\": \"" \o fr.response.result
     \o "\"\n    }\n  }"

RECURSIVE StringifyEntries(_)
StringifyEntries(frs) ==
  IF Len(frs) = 1 THEN StringifyResponse(frs[1])
  ELSE StringifyEntries(SubSeq(frs, 1, Len(frs) - 1)) \o ",\n" \o StringifyResponse(frs[Len(frs)])

\* JSON.stringify(functionResponses, null, 2)
StringifyResponses(frs) ==
  IF Len(frs) = 0 THEN "[]" ELSE "[\n" \o StringifyEntries(frs) \o "\n]"

ResponseMessage(frs) ==
  "Function call response:\n" \o Fence \o "json\n" \o StringifyResponses(frs) \o "\n" \o Fence

RECURSIVE TriggerTurns(_, _)
\* The loop of onToolCall: one system turn per function call, in order.
TriggerTurns(ts, fcs) ==
  IF Len(fcs) = 0 THEN ts
  ELSE AddTurn(TriggerTurns(ts, SubSeq(fcs, 1, Len(fcs) - 1)),
               [role |-> "system", text |-> TriggerMessage(fcs[Len(fcs)]), isFinal |-> TRUE])

\* onToolCall: the turns after the batch.
ToolCallTurns(ts, fcs) ==
  LET frs == FunctionResponses(fcs)
      t1 == TriggerTurns(ts, fcs)
  IN IF Len(frs) > 0
     THEN AddTurn(t1, [role |-> "system", text |-> ResponseMessage(frs), isFinal |-> TRUE])
     ELSE t1

\* onToolCall: what is passed to client.sendToolResponse.
ToolCallSent(fcs) == <<[functionResponses |-> FunctionResponses(fcs)]>>

\* client 'toolcall' -> onToolCall(toolCall).
OnToolCall(fcs) ==
  /\ conn = "open"
  /\ Len(turns) + Len(fcs) + 1 <= MaxTurns
  /\ turns' = ToolCallTurns(turns, fcs)
  /\ lastOp' = <<"toolcall", fcs, ToolCallSent(fcs)>>
  /\ UNCHANGED tools
  /\ afterDisconnect' = FALSE
  /\ UNCHANGED <<ctrl, inputTokens, outputTokens, cons, reported, nonDecreasing, liveAdded>>

\* A suggestion chip is shown while the dashboard shows an analysis.
\* handleSuggestionClick: the suggestion becomes a final user turn.
HandleSuggestionClick(i) ==
  /\ sessionState # "idle"
  /\ analysis # "null"
  /\ i \in 1..Len(suggestions)
  /\ Len(turns) < MaxTurns
  /\ turns' = AddTurn(turns, [role |-> "user", text |-> suggestions[i], isFinal |-> TRUE])
  /\ lastOp' = <<"suggestionClick", suggestions[i]>>
  /\ UNCHANGED tools
  /\ afterDisconnect' = FALSE
  /\ UNCHANGED <<ctrl, inputTokens, outputTokens, cons, reported,
                 nonDecreasing, liveAdded>>

\* useLogStore.clearTurns, the Reset button of the control tray.
ClearTurns ==
  /\ turns # <<>>
  /\ turns' = <<>>
  /\ lastOp' = <<"clearTurns">>
  /\ UNCHANGED tools
  /\ afterDisconnect' = FALSE
  /\ UNCHANGED <<ctrl, inputTokens, outputTokens, cons, reported,
                 nonDecreasing, liveAdded>>

\* ---------------------------------------------------------- analysis loop
\* The threshold of callAnalysisAPI.
MinTranscriptLength == 50

\* White space String.prototype.trim removes (the characters the model uses).
IsSpace(c) == c \in {" ", "\n", "\t", "\r"}

RECURSIVE TrimStart(_)
TrimStart(str) ==
  IF Len(str) = 0 THEN str
  ELSE IF IsSpace(SubSeq(str, 1, 1)) THEN TrimStart(SubSeq(str, 2, Len(str))) ELSE str

RECURSIVE TrimEnd(_)
TrimEnd(str) ==
  IF Len(str) = 0 THEN str
  ELSE IF IsSpace(SubSeq(str, Len(str), Len(str)))
       THEN TrimEnd(SubSeq(str, 1, Len(str) - 1)) ELSE str

\* String.prototype.trim
Trim(str) == TrimEnd(TrimStart(str))

\* The first check of callAnalysisAPI without the trim.
EnoughContentUntrimmed(transcript) == ~(Len(transcript) < MinTranscriptLength)

\* callAnalysisAPI goes on past its first check.
EnoughContent(transcript) == ~(Len(Trim(transcript)) < MinTranscriptLength)

\* usageMetadata of a generateContent response: absent, or one token each way.
Usages == {[prompt |-> 0, candidates |-> 0], [prompt |-> 1, candidates |-> 1]}

\* The suggestions a response carries.
SuggestionList == <<"Yes", "No", "Why">>

RemoveAt(q, i) == SubSeq(q, 1, i - 1) \o SubSeq(q, i + 1, Len(q))

ANALYSIS_INTERVAL_MS == 10000

\* Elapsed time is observed in steps of half an interval.
TimeStepMs == ANALYSIS_INTERVAL_MS \div 2

\* Time passes: not beyond the moment a live interval is due, and followed
\* only until the session has gone one step past a full interval without a tick.
TimePasses ==
  /\ clocked
  /\ analysisTimer => timerAge < ANALYSIS_INTERVAL_MS
  /\ sinceTick <= ANALYSIS_INTERVAL_MS
  /\ timerAge' = IF analysisTimer THEN timerAge + TimeStepMs ELSE timerAge
  /\ sinceTick' = IF sessionState = "listening" THEN sinceTick + TimeStepMs ELSE sinceTick
  /\ lastOp' = <<"timePasses", sessionState>>
  /\ UNCHANGED tools
  /\ UNCHANGED afterDisconnect
  /\ UNCHANGED <<ctrl, logv, transcriptRef, analysisTimer, isAnalyzing, analysis,
                 suggestions, calls, storev, clocked, reported, nonDecreasing, liveAdded>>

\* A finally block that leaves isAnalyzing as it is.
AnalyzingKept(a) == a

\* isAnalyzing after the finally block of callAnalysisAPI.
AnalyzingAfterCall(a) == FALSE

\* A call as it starts; superseded records that the analysis of a call
\* started later has been stored in the meantime.
NewCall == [phase |-> "analysis", superseded |-> FALSE]

\* The calls in flight after call i stored its analysis.
AnalysisStored(cs, i) ==
  [j \in 1..Len(cs) |->
     IF j = i THEN [cs[j] EXCEPT !.phase = "suggestions"]
     ELSE IF j < i /\ cs[j].phase = "analysis" THEN [cs[j] EXCEPT !.superseded = TRUE]
     ELSE cs[j]]

\* An interval tick: callAnalysisAPI() up to its first await, with at most
\* maxCalls calls followed at a time.
AnalysisTickUpTo(maxCalls) ==
  /\ analysisTimer
  /\ clocked => timerAge = ANALYSIS_INTERVAL_MS
  /\ timerAge' = 0
  /\ sinceTick' = 0
  /\ IF EnoughContent(transcriptRef)
     THEN /\ Len(calls) < maxCalls
          /\ isAnalyzing' = TRUE
          /\ suggestions' = <<>>
          /\ calls' = Append(calls, NewCall)
     ELSE UNCHANGED <<isAnalyzing, suggestions, calls>>
  /\ lastOp' = <<"tick", transcriptRef, Len(calls') > Len(calls)>>
  /\ UNCHANGED tools
  /\ afterDisconnect' = FALSE
  /\ UNCHANGED <<ctrl, logv, transcriptRef, analysisTimer, analysis, storev, clocked,
                 reported, nonDecreasing, liveAdded>>

AnalysisTick == AnalysisTickUpTo(MaxCalls)

\* The analysis response of call i arrived: addTokens, setAnalysis, and the
\* suggestions request is issued. While idle the session effect runs again
\* (analysis and the counters are its dependencies) and clears the analysis.
AnalysisResolved(i, u) ==
  /\ i \in 1..Len(calls)
  /\ calls[i].phase = "analysis"
  /\ inputTokens + u.prompt <= MaxTokenReport + 1
  /\ outputTokens + u.candidates <= MaxTokenReport + 1
  /\ inputTokens' = AddTokens(inputTokens, u.prompt)
  /\ outputTokens' = AddTokens(outputTokens, u.candidates)
  /\ calls' = AnalysisStored(calls, i)
  /\ ConsoleRender(sessionState, isSystemAudioConnected,
                   AddTokens(inputTokens, u.prompt), AddTokens(outputTokens, u.candidates),
                   "result", suggestions, retrievedContext, customerPhoneNumber)
  /\ lastOp' = <<"analysisResolved", u, sessionState, calls[i].superseded>>
  /\ UNCHANGED tools
  /\ afterDisconnect' = FALSE
  /\ UNCHANGED <<ctrl, turns, isAnalyzing, reported,
                 nonDecreasing, liveAdded>>

\* The suggestions response of call i arrived: addTokens, setSuggestions, and
\* the finally block clears isAnalyzing. While idle a change of the counters
\* runs the session effect again, which clears the suggestions.
SuggestionsResolved(i, u) ==
  /\ i \in 1..Len(calls)
  /\ calls[i].phase = "suggestions"
  /\ inputTokens + u.prompt <= MaxTokenReport + 1
  /\ outputTokens + u.candidates <= MaxTokenReport + 1
  /\ inputTokens' = AddTokens(inputTokens, u.prompt)
  /\ outputTokens' = AddTokens(outputTokens, u.candidates)
  /\ calls' = RemoveAt(calls, i)
  /\ isAnalyzing' = AnalyzingAfterCall(isAnalyzing)
  /\ ConsoleRender(sessionState, isSystemAudioConnected,
                   AddTokens(inputTokens, u.prompt), AddTokens(outputTokens, u.candidates),
                   analysis, SuggestionList, retrievedContext, customerPhoneNumber)
  /\ lastOp' = <<"suggestionsResolved", u, sessionState>>
  /\ UNCHANGED tools
  /\ afterDisconnect' = FALSE
  /\ UNCHANGED <<ctrl, turns, reported, nonDecreasing, liveAdded>>

\* A request of call i failed: it threw (no usage), or its response carried
\* the usage u, which addTokens applied, and then did not parse. The catch
\* block logs it and the finally block clears isAnalyzing.
AnalysisFailed(i, u) ==
  /\ i \in 1..Len(calls)
  /\ inputTokens + u.prompt <= MaxTokenReport + 1
  /\ outputTokens + u.candidates <= MaxTokenReport + 1
  /\ inputTokens' = AddTokens(inputTokens, u.prompt)
  /\ outputTokens' = AddTokens(outputTokens, u.candidates)
  /\ calls' = RemoveAt(calls, i)
  /\ isAnalyzing' = AnalyzingAfterCall(isAnalyzing)
  /\ ConsoleRender(sessionState, isSystemAudioConnected,
                   AddTokens(inputTokens, u.prompt), AddTokens(outputTokens, u.candidates),
                   analysis, suggestions, retrievedContext, customerPhoneNumber)
  /\ lastOp' = <<"analysisFailed", u, sessionState>>
  /\ UNCHANGED tools
  /\ afterDisconnect' = FALSE
  /\ UNCHANGED <<ctrl, turns, reported, nonDecreasing, liveAdded>>

\* The characters the sanitization keeps.
PhoneChars == "0123456789+"

\* A sanitized number is stored when it is longer than this.
MinPhoneLength == 5

\* The phone numbers of mockCustomerDatabase.
MockCustomerPhoneNumbers == {"+15551234567", "+15559876543"}

\* phoneNumber.replace(/[^0-9+]/g, '').
RECURSIVE Sanitize(_)
Sanitize(str) ==
  IF str = "" THEN ""
  ELSE LET h == SubSeq(str, 1, 1)
           t == Sanitize(SubSeq(str, 2, Len(str)))
       IN IF \E k \in 1..Len(PhoneChars) : SubSeq(PhoneChars, k, k) = h THEN h \o t ELSE t

\* The phone number of the session store after the start button: the
\* sanitized entry when longer than MinPhoneLength, the stored one when not,
\* null for an empty entry.
StartPhoneNumber(stored, phoneNumber) ==
  IF phoneNumber # ""
  THEN IF Len(Sanitize(phoneNumber)) > MinPhoneLength THEN Sanitize(phoneNumber) ELSE stored
  ELSE "null"

\* The welcome screen's start button: handleStartListening.
HandleStartListening(phoneNumber) ==
  /\ sessionState = "idle"
  /\ ConsoleRender(sessionState, isSystemAudioConnected, inputTokens, outputTokens,
                   analysis, suggestions, retrievedContext,
                   StartPhoneNumber(customerPhoneNumber, phoneNumber))
  /\ ConnectCall
  /\ lastOp' = <<"start", phoneNumber, conn = "connecting">>
  /\ UNCHANGED tools
  /\ afterDisconnect' = FALSE
  /\ UNCHANGED <<sessionState, muted, isSystemAudioConnected, config, micAudioRecorder,
                 systemAudioRecorder, sysAcquiring, error, lstn, logv, isAnalyzing, calls,
                 unTok>>

\* getCustomerContextByPhoneNumber: the customer's context, [] for a number
\* the database does not hold.
CustomerContext(phoneNumber) ==
  IF phoneNumber \in MockCustomerPhoneNumbers THEN "context" ELSE "none"

\* The context fetchContext writes when the lookup returns.
FetchedContext(stored, context) == IF context # "none" THEN context ELSE stored

\* A lookup in flight returns: setRetrievedContext when it found something.
LookupResolved(i) ==
  /\ i \in 1..Len(lookups)
  /\ ConsoleRenderFrom([ConsoleState EXCEPT !.lookups = RemoveAt(lookups, i)],
                       sessionState, isSystemAudioConnected, inputTokens, outputTokens,
                       analysis, suggestions,
                       FetchedContext(retrievedContext, CustomerContext(lookups[i])),
                       customerPhoneNumber)
  /\ lastOp' = <<"lookupResolved", lookups[i], sessionState>>
  /\ UNCHANGED tools
  /\ afterDisconnect' = FALSE
  /\ UNCHANGED <<ctrl, logv, isAnalyzing, calls, unTok>>

\* ------------------------------------------------------------- tool list
HasName(ts, name) == \E i \in 1..Len(ts) : ts[i].name = name

\* The decimal numeral of a counter below ten.
Numeral(k) == SubSeq("123456789", k, k)

\* addTool: 'new_function', then new_function_<counter> with the counter
\* going up from 1, until no tool has the name.
RECURSIVE FreeName(_, _, _)
FreeName(ts, name, counter) ==
  IF HasName(ts, name) THEN FreeName(ts, "new_function_" \o Numeral(counter), counter + 1)
  ELSE name

\* addTool taking the default name whether it is free or not.
NewToolNameFixed(ts) == "new_function"

NewToolName(ts) == FreeName(ts, "new_function", 1)

\* updateTool without its look at the names in use.
NoCollision(ts, oldName, updatedTool) == FALSE

\* updateTool: the name was changed to one a tool already has.
NameCollision(ts, oldName, updatedTool) ==
  oldName # updatedTool.name /\ HasName(ts, updatedTool.name)

AddTool ==
  /\ Len(tools) < MaxTools
  /\ tools' = Append(tools, [name |-> NewToolName(tools), isEnabled |-> TRUE])
  /\ lastOp' = <<"addTool">>
  /\ afterDisconnect' = FALSE
  /\ UNCHANGED <<ctrl, logv, cons, reported, nonDecreasing, liveAdded>>

RemoveTool(toolName) ==
  /\ tools' = SelectSeq(tools, LAMBDA t : t.name # toolName)
  /\ lastOp' = <<"removeTool", toolName>>
  /\ afterDisconnect' = FALSE
  /\ UNCHANGED <<ctrl, logv, cons, reported, nonDecreasing, liveAdded>>

ToggleTool(toolName) ==
  /\ LET Toggled(t) == IF t.name = toolName THEN [t EXCEPT !.isEnabled = ~t.isEnabled] ELSE t
     IN tools' = [i \in 1..Len(tools) |-> Toggled(tools[i])]
  /\ lastOp' = <<"toggleTool", toolName>>
  /\ afterDisconnect' = FALSE
  /\ UNCHANGED <<ctrl, logv, cons, reported, nonDecreasing, liveAdded>>

\* updateTool(oldName, updatedTool): returns the state it got on a collision,
\* else replaces every tool named oldName.
UpdateTool(oldName, updatedTool) ==
  /\ LET Updated(t) == IF t.name = oldName THEN updatedTool ELSE t
     IN tools' = IF NameCollision(tools, oldName, updatedTool) THEN tools
                 ELSE [i \in 1..Len(tools) |-> Updated(tools[i])]
  /\ lastOp' = <<"updateTool", oldName, updatedTool>>
  /\ afterDisconnect' = FALSE
  /\ UNCHANGED <<ctrl, logv, cons, reported, nonDecreasing, liveAdded>>

\* ------------------------------------------------------- specifications
\* The state after the hooks and stores are constructed, for a microphone
\* preference m, a configuration cfg, a clock that is tracked or not, and a
\* platform that gives sysMax system-audio streams at a time.
InitWith(m, cfg, ck, sysMax) ==
  /\ sessionState = "idle"
  /\ muted = m
  /\ isSystemAudioConnected = FALSE
  /\ config = cfg
  /\ lastLiveTokens = [input |-> 0, output |-> 0]
  /\ micAudioRecorder = NewRecorder(MaxMicStreams)
  /\ systemAudioRecorder = NewRecorder(sysMax)
  /\ sysAcquiring = 0
  /\ error = "null"
  /\ conn = "closed"
  /\ turns = <<>>
  /\ inputTokens = 0
  /\ outputTokens = 0
  /\ transcriptRef = ""
  /\ analysisTimer = FALSE
  /\ isAnalyzing = FALSE
  /\ analysis = "null"
  /\ suggestions = <<>>
  /\ calls = <<>>
  /\ micListeners = 0
  /\ sysListeners = 0
  /\ connections = 0
  /\ tools = <<>>
  /\ retrievedContext = "null"
  /\ lookups = <<>>
  /\ customerPhoneNumber = "null"
  /\ lastSessionAnalysis = "null"
  /\ lastSessionTokens = 0
  /\ lookupCount = 0
  /\ clocked = ck
  /\ timerAge = 0
  /\ sinceTick = 0
  /\ lastOp = <<"init">>
  /\ reported = [input |-> 0, output |-> 0]
  /\ nonDecreasing = TRUE
  /\ liveAdded = 0
  /\ afterDisconnect = FALSE

Init == InitWith(FALSE, "empty", FALSE, MaxSysStreams)

\* A later session of a user who muted the microphone in an earlier one: the
\* mic effect then never starts the recorder.
InitMuted == InitWith(TRUE, "set", FALSE, MaxSysStreams)

\* The same with elapsed time tracked.
InitClocked == InitWith(TRUE, "set", TRUE, MaxSysStreams)

\* A platform that grants more than one system-audio stream at a time.
InitShared == InitWith(TRUE, "set", FALSE, MaxSysOverlap)

\* Inputs of the events.
TokenCounts == 0..MaxTokenReport

ShortTexts == {"a", "b"}

GateTexts == {"a", " ", Pad49}

FunctionCalls == {[id |-> "c1", name |-> "f", args |-> "none"],
                  [id |-> "c2", name |-> "g", args |-> "city"]}

Batches == {<<>>} \cup {<<x>> : x \in FunctionCalls}
             \cup {<<x, y>> : x \in FunctionCalls, y \in FunctionCalls}

ToolNames == {"new_function", "new_function_1", "lookup"}

EditedTools == [name : ToolNames, isEnabled : BOOLEAN]

LongTexts == {Pad49 \o "."}

NoUsage == {[prompt |-> 0, candidates |-> 0]}

\* A streamed fragment and a sentence long enough to be analysed.
SealTexts == {"a"} \cup LongTexts

\* A batch of one call.
SingleBatches == {<<[id |-> "c1", name |-> "f", args |-> "none"]>>}

Session ==
  \/ Connect \/ ClientOpen \/ RemoteClose \/ Disconnect

Microphone ==
  \/ MicAcquired \/ MicSettle \/ MicFail

Controls ==
  \/ Pause \/ Resume \/ ToggleMute

SystemAudio ==
  \/ StartSystemAudio \/ SysStreamAcquired \/ SysAcquireFail \/ SysSettle \/ SysFail
  \/ StopSystemAudio \/ TrackEnded

Tokens == \E i \in TokenCounts, o \in TokenCounts : OnTokens(i, o)

Log ==
  \/ \E b \in Batches : OnToolCall(b)
  \/ \E i \in 1..Len(SuggestionList) : HandleSuggestionClick(i)
  \/ ClearTurns

Analysis(usages) ==
  \/ AnalysisTick
  \/ \E i \in 1..MaxCalls, u \in usages : AnalysisResolved(i, u)
  \/ \E i \in 1..MaxCalls, u \in usages : SuggestionsResolved(i, u)
  \/ \E i \in 1..MaxCalls, u \in usages : AnalysisFailed(i, u)

ShortTranscription ==
  \E t \in ShortTexts, f \in BOOLEAN : HandleInputTranscription(t, f, MaxTurns)

GateTranscription ==
  \E t \in GateTexts, f \in BOOLEAN : HandleInputTranscription(t, f, GateTurns)

LongTranscription ==
  \E t \in LongTexts, f \in BOOLEAN : HandleInputTranscription(t, f, GateTurns)

ShortStream ==
  \E t \in ShortTexts, f \in BOOLEAN : HandleInputTranscription(t, f, StreamTurns)

\* The controller with its two recorders.
NextSession == Session \/ Controls \/ Microphone \/ SystemAudio

SpecSession == Init /\ [][NextSession]_vars

\* The controller with the microphone alone.
NextMic == Session \/ Controls \/ Microphone

SpecMic == Init /\ [][NextMic]_vars

\* The microphone with the frames its worklets deliver.
NextFrames == NextMic \/ MicFrame

SpecFrames == Init /\ [][NextFrames]_vars

\* The controller with system audio alone (microphone muted).
NextSys == Session \/ Pause \/ Resume \/ SystemAudio

SpecSys == InitMuted /\ [][NextSys]_vars

\* The system-audio button of the control tray, rendered while the session is
\* not idle: it calls startSystemAudio while the flag is false.
SystemAudioButton ==
  /\ sessionState # "idle"
  /\ ~isSystemAudioConnected
  /\ StartSystemAudioUpTo(MaxSysOverlap)

\* System audio with invocations of startSystemAudio that overlap.
NextSysOverlap ==
  \/ Connect \/ ClientOpen \/ Disconnect
  \/ SystemAudioButton \/ SysStreamAcquired \/ SysSettle \/ StopSystemAudio

SpecSysOverlap == InitShared /\ [][NextSysOverlap]_vars

\* Both capture sources and every control that re-runs their effects. A
\* microphone start stays pending or is rejected here; the starts that succeed
\* and the failures of system audio are in SpecMic and SpecSys.
NextListeners ==
  \/ Session \/ Controls \/ MicFail
  \/ StartSystemAudio \/ SysStreamAcquired \/ SysSettle \/ StopSystemAudio

SpecListeners == Init /\ [][NextListeners]_vars

\* The analysis interval of a session against the clock, with token reports
\* arriving from the server.
NextTimer ==
  \/ Session \/ Pause \/ Resume
  \/ Tokens
  \/ TimePasses \/ AnalysisTick

SpecTimer == InitClocked /\ [][NextTimer]_vars

\* Token accounting of the live connection.
NextTokens == Session \/ Tokens

SpecTokens == InitMuted /\ [][NextTokens]_vars

\* Streaming of the user's transcript into the log.
NextTranscript == Connect \/ ClientOpen \/ Disconnect \/ ShortStream \/ ClearTurns

SpecTranscript == InitMuted /\ [][NextTranscript]_vars

\* Tool-call batches.
NextTools ==
  \/ Connect \/ ClientOpen \/ Disconnect
  \/ ShortTranscription
  \/ \E b \in Batches : OnToolCall(b)
  \/ ClearTurns

SpecTools == InitMuted /\ [][NextTools]_vars

\* The conversation log with the analysis loop that feeds the suggestions.
NextLog == Session \/ ShortTranscription \/ Log \/ Analysis(NoUsage)

SpecLog == InitMuted /\ [][NextLog]_vars

\* Every writer of the turn log in one session: transcription events, tool
\* calls, clicks on the suggestions of an analysis, and the Reset button.
NextSeal ==
  \/ Connect \/ ClientOpen
  \/ \E t \in SealTexts, f \in BOOLEAN : HandleInputTranscription(t, f, StreamTurns)
  \/ \E b \in SingleBatches : OnToolCall(b)
  \/ HandleSuggestionClick(1)
  \/ ClearTurns
  \/ AnalysisTick
  \/ \E i \in 1..MaxCalls, u \in NoUsage : AnalysisResolved(i, u)
  \/ \E i \in 1..MaxCalls, u \in NoUsage : SuggestionsResolved(i, u)

SpecSeal == InitMuted /\ [][NextSeal]_vars

\* Analysis calls that take longer than the interval: a second call starts
\* while the first is in flight, and the responses arrive in either order.
NextOverlap ==
  \/ Connect \/ ClientOpen \/ Disconnect
  \/ LongTranscription
  \/ AnalysisTickUpTo(MaxOverlap)
  \/ \E i \in 1..MaxOverlap, u \in NoUsage : AnalysisResolved(i, u)
  \/ \E i \in 1..MaxOverlap, u \in NoUsage : SuggestionsResolved(i, u)

SpecOverlap == InitMuted /\ [][NextOverlap]_vars

\* The analysis gate on transcripts around the threshold.
NextGate ==
  \/ Connect \/ ClientOpen \/ Disconnect
  \/ GateTranscription
  \/ AnalysisTick
  \/ \E i \in 1..MaxCalls, u \in NoUsage : AnalysisFailed(i, u)

SpecGate == InitMuted /\ [][NextGate]_vars

\* The end of a session that has a transcript and an analysis.
NextFinal ==
  \/ Session \/ Pause \/ Resume
  \/ LongTranscription
  \/ Analysis(Usages)

SpecFinal == InitMuted /\ [][NextFinal]_vars

\* The tool list of the settings sidebar.
NextToolList ==
  \/ AddTool
  \/ \E n \in ToolNames : RemoveTool(n)
  \/ \E n \in ToolNames : ToggleTool(n)
  \/ \E n \in ToolNames, t \in EditedTools : UpdateTool(n, t)

SpecToolList == InitMuted /\ [][NextToolList]_vars

\* What the agent types into the phone field: nothing, too few digits, a
\* customer of the database with punctuation, a number it does not hold.
PhoneEntries == {"", "12-34", "+1 (555) 123-4567", "+15550000000"}

\* Sessions started from the welcome screen with a customer phone number.
Context ==
  \/ \E p \in PhoneEntries : HandleStartListening(p)
  \/ \E i \in 1..MaxLookups : LookupResolved(i)

NextContext ==
  \/ Context
  \/ ClientOpen \/ RemoteClose \/ Disconnect
  \/ Pause \/ Resume

SpecContext == InitMuted /\ [][NextContext]_vars

\* Sessions started from the welcome screen while the analysis of the previous
\* session may still be in flight.
NextStart ==
  \/ Context
  \/ ClientOpen \/ Disconnect
  \/ LongTranscription
  \/ AnalysisTick
  \/ \E i \in 1..MaxCalls, u \in NoUsage : AnalysisResolved(i, u)
  \/ \E i \in 1..MaxCalls, u \in NoUsage : SuggestionsResolved(i, u)

SpecStart == InitMuted /\ [][NextStart]_vars

Next ==
  \/ Session \/ Controls \/ SetConfig \/ Microphone \/ SystemAudio \/ Tokens
  \/ ShortTranscription \/ GateTranscription \/ Log \/ Analysis(Usages)
  \/ Context \/ NextToolList

Spec == Init /\ [][Next]_vars

\* ---------------------------------------------------------------- claims
\* C1 as stated: the session state changes only along idle -open-> listening,
\* listening -pause-> paused, paused -resume-> listening, listening|paused
\* -disconnect-> idle and listening -close-> idle; each of these is taken when
\* its call or event happens; pause outside listening and resume outside
\* paused leave the state unchanged.
C1_ListedTransitions ==
  [][/\ sessionState' # sessionState =>
          \/ sessionState = "idle" /\ sessionState' = "listening" /\ lastOp'[1] = "open"
          \/ sessionState = "listening" /\ sessionState' = "paused" /\ lastOp'[1] = "pause"
          \/ sessionState = "paused" /\ sessionState' = "listening" /\ lastOp'[1] = "resume"
          \/ sessionState \in {"listening", "paused"} /\ sessionState' = "idle"
               /\ lastOp'[1] = "disconnect"
          \/ sessionState = "listening" /\ sessionState' = "idle" /\ lastOp'[1] = "close"
     /\ lastOp'[1] = "open" /\ sessionState = "idle" => sessionState' = "listening"
     /\ lastOp'[1] = "pause" =>
          sessionState' = IF sessionState = "listening" THEN "paused" ELSE sessionState
     /\ lastOp'[1] = "resume" =>
          sessionState' = IF sessionState = "paused" THEN "listening" ELSE sessionState
     /\ lastOp'[1] = "disconnect" => sessionState' = "idle"
     /\ lastOp'[1] = "close" /\ sessionState = "listening" => sessionState' = "idle"]_vars

\* C1 amended: as C1, and the open and close events act from every state:
\* open leads to listening also from paused (and keeps listening), a remote
\* close leads to idle also from paused.
C1_SessionMachine ==
  [][/\ sessionState' # sessionState =>
          \/ sessionState' = "listening" /\ lastOp'[1] = "open"
          \/ sessionState = "listening" /\ sessionState' = "paused" /\ lastOp'[1] = "pause"
          \/ sessionState = "paused" /\ sessionState' = "listening" /\ lastOp'[1] = "resume"
          \/ sessionState' = "idle" /\ lastOp'[1] \in {"disconnect", "close"}
     /\ lastOp'[1] = "open" => sessionState' = "listening"
     /\ lastOp'[1] = "pause" =>
          sessionState' = IF sessionState = "listening" THEN "paused" ELSE sessionState
     /\ lastOp'[1] = "resume" =>
          sessionState' = IF sessionState = "paused" THEN "listening" ELSE sessionState
     /\ lastOp'[1] \in {"disconnect", "close"} => sessionState' = "idle"]_vars

\* C1 witness: the server closed the connection of a paused session, and the
\* session went idle.
C1_Witness == lastOp = <<"close", "paused">> /\ sessionState = "idle"

\* C2: a token notification never lowers inputTokens or outputTokens.
C2_CountersNeverDecrease ==
  [][lastOp'[1] = "tokens" =>
       inputTokens' >= inputTokens /\ outputTokens' >= outputTokens]_vars

\* C3: while every report of the session was at least the one before it, the
\* total onTokens added (and the counters hold) is the last reported input plus
\* the last reported output.
C3_NonDecreasingTotal ==
  nonDecreasing =>
    /\ liveAdded = reported.input + reported.output
    /\ inputTokens + outputTokens = liveAdded

\* C3 witness: a non-decreasing run of reports that raised both counts.
C3_Witness ==
  /\ lastOp[1] = "tokens" /\ nonDecreasing
  /\ reported.input > 0 /\ reported.output > 0 /\ liveAdded = reported.input + reported.output

\* C4: (text2, true) after a (text, false) that opened a turn keeps the number
\* of turns and leaves that turn with text \o text2, sealed; (text3, false)
\* after a sealing event appends a turn and leaves the rest as it was.
C4_TranscriptAssembly ==
  [][/\ ( /\ lastOp[1] = "inputTranscription" /\ ~lastOp[3] /\ lastOp[4]
          /\ lastOp'[1] = "inputTranscription" /\ lastOp'[3] )
        => /\ Len(turns') = Len(turns)
           /\ SubSeq(turns', 1, Len(turns) - 1) = SubSeq(turns, 1, Len(turns) - 1)
           /\ turns'[Len(turns')] = [role |-> "user", text |-> lastOp[2] \o lastOp'[2],
                              isFinal |-> TRUE]
     /\ ( /\ lastOp[1] = "inputTranscription" /\ lastOp[3]
          /\ lastOp'[1] = "inputTranscription" /\ ~lastOp'[3] )
        => turns' = Append(turns, [role |-> "user", text |-> lastOp'[2], isFinal |-> FALSE])]_vars

\* C4 witness: "a" then ("b", final) made one sealed turn "ab", and a third,
\* non-final event opened the next turn.
C4_Witness ==
  /\ lastOp[1] = "inputTranscription" /\ ~lastOp[3] /\ lastOp[4]
  /\ Len(turns) = 2
  /\ turns[1] = [role |-> "user", text |-> "ab", isFinal |-> TRUE]
  /\ ~turns[2].isFinal

\* C5: only the last turn of the log may be non-final.
C5_OpenTurnOnlyAtTail ==
  \A i \in 1..Len(turns) : ~turns[i].isFinal => i = Len(turns)

\* C6: the microphone recorder records only while listening and not muted.
C6_CaptureOnlyWhileListening ==
  micAudioRecorder.recording => sessionState = "listening" /\ ~muted

\* C7: after disconnect(), once no recorder start and no stream request is
\* pending, both recorders are stopped, the system-audio flag is false, the
\* connection is closed and the session is idle.
C7_DisconnectStopsAll ==
  ( /\ afterDisconnect
    /\ micAudioRecorder.pending = {} /\ systemAudioRecorder.pending = {}
    /\ sysAcquiring = 0 )
  => /\ ~micAudioRecorder.recording /\ ~systemAudioRecorder.recording
     /\ ~isSystemAudioConnected
     /\ conn = "closed"
     /\ sessionState = "idle"

\* C8: disconnect() leaves the session idle, and a second disconnect() right
\* after the first changes nothing of the controller.
C8_DisconnectIdempotent ==
  [][lastOp'[1] = "disconnect" =>
       /\ sessionState' = "idle"
       /\ lastOp[1] = "disconnect" => UNCHANGED ctrl]_vars

\* C8 witness: two disconnect() calls in a row, the first of which ended a
\* session with a microphone start still pending.
C8_Witness ==
  /\ lastOp[1] = "disconnect" /\ lastOp[2]
  /\ micAudioRecorder.pending # {}

\* C9 as stated: a tick issues the analysis call exactly when the transcript
\* has 50 or more characters.
C9_GateOnLength ==
  lastOp[1] = "tick" => (lastOp[3] <=> Len(lastOp[2]) >= 50)

\* C9 amended: a tick issues the analysis call exactly when the transcript
\* without its leading and trailing white space has 50 or more characters.
C9_GateOnTrimmedLength ==
  lastOp[1] = "tick" => (lastOp[3] <=> Len(Trim(lastOp[2])) >= 50)

\* C9 witness: a call issued for a transcript of exactly 50 characters besides
\* the white space around them.
C9_Witness ==
  /\ lastOp[1] = "tick" /\ lastOp[3]
  /\ Len(Trim(lastOp[2])) = 50 /\ Len(lastOp[2]) > 50

\* C10: a batch of n >= 1 calls appends n final system trigger turns in call
\* order, then one final system response turn, and one batch of n responses
\* is sent, response i with the id and name of call i and {result: "ok"}.
C10_ToolCallBatch ==
  [][(lastOp'[1] = "toolcall" /\ Len(lastOp'[2]) >= 1) =>
       LET fcs == lastOp'[2]
           sent == lastOp'[3]
           n == Len(fcs)
           k == Len(turns)
       IN /\ Len(turns') = k + n + 1
          /\ SubSeq(turns', 1, k) = turns
          /\ \A i \in 1..n :
               turns'[k + i] = [role |-> "system", text |-> TriggerMessage(fcs[i]),
                                isFinal |-> TRUE]
          /\ turns'[k + n + 1].role = "system" /\ turns'[k + n + 1].isFinal
          /\ Len(sent) = 1
          /\ Len(sent[1].functionResponses) = n
          /\ \A i \in 1..n :
               sent[1].functionResponses[i] =
                 [id |-> fcs[i].id, name |-> fcs[i].name, response |-> [result |-> "ok"]]]_vars

\* C10 witness: a batch of two different calls was handled on an empty log.
C10_Witness ==
  /\ lastOp[1] = "toolcall" /\ Len(lastOp[2]) = 2 /\ lastOp[2][1] # lastOp[2][2]
  /\ Len(turns) = 3

C12_OpenResets ==
  [][lastOp'[1] = "open" =>
       /\ sessionState' = "listening"
       /\ inputTokens' = 0 /\ outputTokens' = 0
       /\ lastLiveTokens' = [input |-> 0, output |-> 0]]_vars

\* C12 witness: the open event of a session that follows one whose counters
\* and last-seen pair were not 0.
C12_Witness ==
  /\ lastOp[1] = "open" /\ lastOp[2] = "idle" /\ lastOp[3]
  /\ inputTokens = 0 /\ outputTokens = 0
  /\ lastLiveTokens = [input |-> 0, output |-> 0]
  /\ lastSessionTokens > 0

\* C13: the tools of the list have pairwise distinct names.
C13_DistinctToolNames ==
  \A i, j \in 1..Len(tools) : tools[i].name = tools[j].name => i = j

\* C13 witness: a full list built by addTool, one of whose tools was renamed.
C13_Witness ==
  /\ Len(tools) = 3
  /\ HasName(tools, "lookup") /\ HasName(tools, "new_function")

\* C14: updateTool(oldName, t) with t.name different from oldName and already
\* in use leaves the tool list as it was.
C14_RenameCollisionRejected ==
  [][(/\ lastOp'[1] = "updateTool"
      /\ lastOp'[2] # lastOp'[3].name
      /\ HasName(tools, lastOp'[3].name)) => tools' = tools]_vars

\* C14 witness: updateTool was asked to give one tool of the list the name of
\* another and to change its enabled flag.
C14_Witness ==
  /\ lastOp[1] = "updateTool"
  /\ \E i, j \in 1..Len(tools) :
       /\ i # j
       /\ tools[i].name = lastOp[2]
       /\ tools[j].name = lastOp[3].name
       /\ tools[i].isEnabled # lastOp[3].isEnabled

\* C15: connect() while the configuration is still the initial empty value
\* fails (throws) and neither tears down nor opens a connection.
C15_ConnectNeedsConfig ==
  [][(lastOp'[1] = "connect" /\ config = "empty") =>
       /\ lastOp'[2]
       /\ conn' = conn /\ connections' = connections]_vars

\* C16: when a session whose analysis is A returns to idle, lastSessionAnalysis
\* is A once the idle finalization has settled.
C16_LastAnalysisKept ==
  [][(sessionState # "idle" /\ sessionState' = "idle" /\ analysis = "result") =>
       lastSessionAnalysis' = "result"]_vars

\* C17: within one session the customer-context lookup is invoked at most
\* once, whatever the first lookup returned and whether or not it completed.
C17_LookupOncePerSession == lookupCount <= 1

C19_OneListenerPerSource ==
  /\ micListeners = (IF MicWanted(sessionState, muted) THEN 1 ELSE 0)
  /\ sysListeners = (IF SysWanted(sessionState, isSystemAudioConnected) THEN 1 ELSE 0)

\* Both listeners attached again after a mute and unmute of a session that
\* forwards system audio.
C19_Witness ==
  /\ lastOp[1] = "toggleMute" /\ ~muted
  /\ micListeners = 1 /\ sysListeners = 1

\* C20: the analysis timer is armed only while the session is listening, and
\* an analysis tick fires (and starts a call) only in the listening state.
C20_TimerOnlyWhileListening ==
  [][/\ analysisTimer => sessionState = "listening"
     /\ analysisTimer' => sessionState' = "listening"
     /\ lastOp'[1] = "tick" => sessionState = "listening"]_vars

\* A session paused after a tick had started an analysis call: no timer is
\* pending while the call is still in flight.
C20_Witness ==
  /\ lastOp = <<"pause", "listening">> /\ sessionState = "paused"
  /\ ~analysisTimer /\ calls # <<>>

\* C21: while the session stays in listening a tick fires one interval after
\* listening was entered and one interval after each tick, whatever arrives
\* in between: listening never lasts longer than an interval without a tick.
C21_TickEveryInterval ==
  sessionState = "listening" => sinceTick <= ANALYSIS_INTERVAL_MS

\* C22: every microphone frame passed to sendRealtimeInput was emitted while
\* the session was listening and the microphone was not muted.
C22_MicFramesOnlyWhileListening ==
  (lastOp[1] = "micFrame" /\ lastOp[2] > 0) => (sessionState = "listening" /\ ~muted)

\* A frame delivered by a stream that is still captured while the microphone
\* is muted reaches no listener.
C22_Witness == lastOp[1] = "micFrame" /\ lastOp[2] = 0 /\ lastOp[4]

\* C23: a turn with isFinal = true is never changed or removed by a step other
\* than clearing the log, and the only turn a step changes in place is a
\* non-final last turn.
C23_SealedTurnsKept ==
  [][lastOp'[1] # "clearTurns" =>
       /\ Len(turns') >= Len(turns)
       /\ \A i \in 1..Len(turns) :
            /\ turns[i].isFinal => turns'[i] = turns[i]
            /\ turns'[i] # turns[i] => (i = Len(turns) /\ ~turns[i].isFinal)
            /\ turns'[i].role = turns[i].role]_vars

\* A transcription event amended the open last turn in place while a sealed
\* turn stood before it.
C23_Witness ==
  /\ lastOp[1] = "inputTranscription" /\ ~lastOp[4]
  /\ Len(turns) = 2 /\ turns[1].isFinal /\ Len(turns[2].text) > Len(lastOp[2])

\* C24: when the stream request or the recorder start of startSystemAudio
\* fails, the flag is false and the UI error is set afterwards, nothing is
\* requested or started again, and the session state and the connection are
\* as before.
C24_SystemAudioFailure ==
  [][lastOp'[1] \in {"sysAcquireFail", "sysFail"} =>
       /\ ~isSystemAudioConnected'
       /\ error' # "null"
       /\ sysAcquiring' <= sysAcquiring
       /\ PendingIds(systemAudioRecorder') \subseteq PendingIds(systemAudioRecorder)
       /\ sessionState' = sessionState
       /\ conn' = conn /\ connections' = connections]_vars

\* A second startSystemAudio failed in a listening session after the first
\* one had connected: the flag went from true to false.
C24_Witness ==
  /\ lastOp = <<"sysAcquireFail", TRUE>>
  /\ sessionState = "listening" /\ ~isSystemAudioConnected /\ error = "message"

\* C25: when the shared track ends, the system-audio recorder is not recording
\* and the flag is false afterwards, and the UI error is what it was.
C25_TrackEndedIsNormalStop ==
  [][lastOp'[1] = "trackEnded" =>
       /\ ~systemAudioRecorder'.recording
       /\ ~isSystemAudioConnected'
       /\ error' = error]_vars

\* The share was revoked while a listening session was forwarding system
\* audio, and no error was ever reported.
C25_Witness ==
  /\ lastOp = <<"trackEnded", TRUE>>
  /\ sessionState = "listening" /\ ~isSystemAudioConnected /\ error = "null"

\* C26: disconnect() leaves the analysis calls in flight as they are, and a
\* response that arrives while the session is idle is still applied: its
\* usage is added to the token counters, and its suggestions are stored
\* when no effect run clears them.
C26_LateCallStillWrites ==
  [][/\ lastOp'[1] = "disconnect" => calls' = calls
     /\ (lastOp'[1] \in {"analysisResolved", "suggestionsResolved"} /\ sessionState = "idle")
        => /\ inputTokens' = inputTokens + lastOp'[2].prompt
           /\ outputTokens' = outputTokens + lastOp'[2].candidates
           /\ lastSessionTokens' = inputTokens' + outputTokens'
           /\ (lastOp'[1] = "suggestionsResolved" /\ lastOp'[2].prompt + lastOp'[2].candidates = 0)
              => suggestions' = SuggestionList]_vars

\* An analysis response arrived after the session had gone idle and raised
\* the token counters of the finished session.
C26_Witness ==
  /\ lastOp[1] = "analysisResolved" /\ lastOp[3] = "idle"
  /\ lastOp[2].prompt > 0 /\ inputTokens > 0 /\ sessionState = "idle"

\* C27: the analysis response of a call that arrives after the analysis of a
\* call started later was stored does not replace it: the analysis held is
\* never the result of the older of two completed calls.
C27_NewestAnalysisWins ==
  ~(lastOp[1] = "analysisResolved" /\ lastOp[4] /\ analysis = "result")

\* C28: when a request of an analysis call fails, the UI error is what it
\* was, isAnalyzing is false, the call is gone and none is started in its
\* place, and the timer is armed afterwards exactly when it was before, which
\* in a listening session it is.
C28_AnalysisFailureCaught ==
  [][lastOp'[1] = "analysisFailed" =>
       /\ error' = error
       /\ ~isAnalyzing'
       /\ Len(calls') = Len(calls) - 1
       /\ analysisTimer' = analysisTimer
       /\ sessionState' = "listening" => analysisTimer']_vars

\* A response with usage that did not parse, in a listening session: the
\* tokens were counted, the call is over and the timer is armed.
C28_Witness ==
  /\ lastOp[1] = "analysisFailed" /\ lastOp[2].prompt > 0 /\ lastOp[3] = "listening"
  /\ analysisTimer /\ ~isAnalyzing /\ calls = <<>> /\ error = "null"

\* C29: after a token notification has been processed the last-seen pair is
\* the cumulative pair it reported.
C29_LastSeenFollowsReport ==
  lastOp[1] = "tokens" => lastLiveTokens = [input |-> lastOp[2], output |-> lastOp[3]]

\* C30: a step that takes the session to idle leaves lastSessionTokens at
\* inputTokens + outputTokens as they stood when the session ended, and a
\* step that leaves the session listening or paused does not change it.
C30_LastSessionTokens ==
  [][/\ (sessionState # "idle" /\ sessionState' = "idle")
        => lastSessionTokens' = inputTokens + outputTokens
     /\ sessionState' # "idle" => lastSessionTokens' = lastSessionTokens]_vars

\* A session that had used input and output tokens was disconnected, and the
\* total it ended with is the stored one.
C30_Witness ==
  /\ lastOp[1] = "disconnect" /\ sessionState = "idle"
  /\ inputTokens > 0 /\ outputTokens > 0
  /\ lastSessionTokens = inputTokens + outputTokens

\* C31: whenever the session is listening and isSystemAudioConnected is true
\* the system-audio recorder is recording, with its forwarding listener
\* attached.
C31_SystemAudioCaptured ==
  (sessionState = "listening" /\ isSystemAudioConnected)
    => (systemAudioRecorder.recording /\ sysListeners = 1)

\* C32: whenever the session is idle, isSystemAudioConnected is false.
C32_IdleMeansDisconnectedAudio == sessionState = "idle" => ~isSystemAudioConnected

\* C33: once every pending start of the microphone recorder has settled, the
\* recorder is not recording when the last call made on it was stop(): a
\* stop() issued while a start is pending is never lost.
C33_StopNeverLost ==
  (micAudioRecorder.pending = {} /\ micAudioRecorder.lastCall = "stop")
    => ~micAudioRecorder.recording

\* C34: at most one system-audio media stream is acquired and live at any
\* time.
C34_OneSystemStream == Cardinality(systemAudioRecorder.live) <= 1

\* C35: isAnalyzing is true exactly while at least one analysis call is in
\* flight.
C35_AnalyzingWhileInFlight == isAnalyzing <=> calls # <<>>

\* C36: the transcript buffer holds only text transcribed in the current
\* session. The buffer is empty from the idle transition until the first
\* transcription of the next session (a transcription is never empty), so
\* after a transcription that found the buffer empty it holds the text of
\* that transcription and nothing else.
C36_OnlyThisSessionsText ==
  [][(transcriptRef = "" /\ lastOp'[1] = "inputTranscription")
       => transcriptRef' = lastOp'[2]]_vars

\* C37: between the start click and the open event (the session idle, the
\* connection being opened) a stored customer phone number is kept by every
\* step other than a further start click or a disconnect.
C37_PhoneNumberKeptUntilOpen ==
  [][(/\ sessionState = "idle"
      /\ conn = "connecting"
      /\ customerPhoneNumber # "null"
      /\ lastOp'[1] \notin {"start", "disconnect"})
       => customerPhoneNumber' = customerPhoneNumber]_vars
====
